---- MODULE Spec2Model ----
(***************************************************************************)
(* Hierarchy-integrity and status-propagation engine of the task           *)
(* management system (lib/task-utils): cycle detection, ancestor and       *)
(* descendant walkers, and the status propagator, together with the        *)
(* callers that apply their results to a task snapshot.                    *)
(*                                                                         *)
(* A snapshot is the Task[] the database layer returns: a sequence of      *)
(* task records ordered by ascending id (ORDER BY id ASC).  Only the       *)
(* fields the engine reads are kept: id, parentId, status.                 *)
(***************************************************************************)
EXTENDS Integers, Sequences, FiniteSets, TLC

VARIABLES tasks, call, ret, applied, seq, inflight

vars == <<tasks, call, ret, applied, seq, inflight>>

(***************************************************************************)
(* Bounds and value sets                                                   *)
(***************************************************************************)
\* number of distinct task ids the snapshots draw from
MaxId == 3

Ids == 1..MaxId

\* number of distinct task ids in the snapshots the descendant walks run on
MaxWalkId == 4
\* requests the server handles at a time
MaxRequests == 2

WalkIds == 1..MaxWalkId

\* a missing parentId (null / undefined); task ids are positive (AUTOINCREMENT)
NULL == 0

IN_PROGRESS == "IN PROGRESS"
DONE == "DONE"
COMPLETE == "COMPLETE"
\* a status token outside the three the propagator interprets
\* (the default status the POST handler stores)
IN_PROCESS == "In Process"

CoreStatuses == {IN_PROGRESS, DONE, COMPLETE}
Statuses == CoreStatuses \cup {IN_PROCESS}

(***************************************************************************)
(* Snapshot access                                                         *)
(***************************************************************************)
Range(s) == {s[i] : i \in 1..Len(s)}

\* ids of the sequence of task records or updates s
IdsOf(s) == {s[i].id : i \in 1..Len(s)}

\* taskMap.has(id) after  tasks.forEach(task => taskMap.set(task.id, task))
HasTask(T, id) == \E i \in 1..Len(T) : T[i].id = id

\* taskMap.get(id): Map.set overwrites, so the last record with the id wins
GetTask(T, id) ==
  LET last == CHOOSE i \in 1..Len(T) :
                /\ T[i].id = id
                /\ \A j \in (i+1)..Len(T) : T[j].id # id
  IN T[last]

\* taskMap.get(id)?.parentId ?? null
ParentOf(T, id) == IF HasTask(T, id) THEN GetTask(T, id).parentId ELSE NULL

\* Math.max(...tasks.map(t => t.id), 0)
LastId(T) == IF Len(T) = 0 THEN 0 ELSE T[Len(T)].id

\* tasks.filter(task => task.parentId === taskId); a null parentId never
\* equals a task id
getTaskChildren(T, taskId) ==
  SelectSeq(T, LAMBDA task : taskId # NULL /\ task.parentId = taskId)

(***************************************************************************)
(* Cycle detector                                                          *)
(***************************************************************************)
RECURSIVE WalkParentChain(_, _, _, _)
\* the while loop of wouldCreateCircularDependency
WalkParentChain(T, taskId, currentId, visited) ==
  IF currentId = NULL THEN FALSE
  ELSE IF currentId = taskId THEN TRUE
  ELSE IF currentId \in visited THEN FALSE
  ELSE WalkParentChain(T, taskId, ParentOf(T, currentId),
                       visited \cup {currentId})

\* a cycle check that only looks at the proposed parent itself
wouldCreateCircularDependency_NoWalk(T, taskId, parentId) ==
  IF parentId = NULL \/ taskId = NULL THEN FALSE
  ELSE taskId = parentId

\* a cycle check that starts the walk above the proposed parent
wouldCreateCircularDependency_SkipFirst(T, taskId, parentId) ==
  IF parentId = NULL \/ taskId = NULL THEN FALSE
  ELSE WalkParentChain(T, taskId, ParentOf(T, parentId), {parentId})

wouldCreateCircularDependency(T, taskId, parentId) ==
  IF parentId = NULL \/ taskId = NULL THEN FALSE
  ELSE IF taskId = parentId THEN TRUE
  ELSE WalkParentChain(T, taskId, parentId, {})

(***************************************************************************)
(* Ancestor / descendant walkers                                           *)
(***************************************************************************)
RECURSIVE AncestorLoop(_, _, _)
\* the while loop of getTaskAncestors
AncestorLoop(T, currentId, ancestors) ==
  IF currentId = NULL THEN ancestors
  ELSE AncestorLoop(T, ParentOf(T, currentId), Append(ancestors, currentId))

\* an ancestor walk that stops after the direct parent
getTaskAncestors_ParentOnly(T, taskId) ==
  IF ParentOf(T, taskId) = NULL THEN <<>> ELSE <<ParentOf(T, taskId)>>

getTaskAncestors(T, taskId) == AncestorLoop(T, ParentOf(T, taskId), <<>>)

\* a descendant walk that lists the direct children only
getTaskDescendants_ChildrenOnly(T, taskId) ==
  LET children == getTaskChildren(T, taskId)
  IN [i \in 1..Len(children) |-> children[i].id]

RECURSIVE getTaskDescendants(_, _)
RECURSIVE DescendantsOfChildren(_, _, _)
\* children.forEach(child => { push child.id; push ...descendants of child })
DescendantsOfChildren(T, children, i) ==
  IF i > Len(children) THEN <<>>
  ELSE <<children[i].id>> \o getTaskDescendants(T, children[i].id)
         \o DescendantsOfChildren(T, children, i + 1)

RECURSIVE DescendantsOfEach(_, _, _)
\* the descendants of every child, without the children themselves
DescendantsOfEach(T, children, i) ==
  IF i > Len(children) THEN <<>>
  ELSE getTaskDescendants(T, children[i].id)
         \o DescendantsOfEach(T, children, i + 1)

\* a descendant walk that lists all children before their descendants
getTaskDescendants_ChildrenFirst(T, taskId) ==
  LET children == getTaskChildren(T, taskId)
  IN [i \in 1..Len(children) |-> children[i].id]
       \o DescendantsOfEach(T, children, 1)

getTaskDescendants(T, taskId) ==
  DescendantsOfChildren(T, getTaskChildren(T, taskId), 1)

\* an exclusion list that puts the task after its descendants
getInvalidParentIds_SelfLast(T, taskId) ==
  IF taskId = NULL THEN <<>>
  ELSE Append(getTaskDescendants(T, taskId), taskId)

\* an exclusion list without the task itself
getInvalidParentIds_DescendantsOnly(T, taskId) ==
  IF taskId = NULL THEN <<>> ELSE getTaskDescendants(T, taskId)

\* if (!taskId) return []; return [taskId, ...descendants]
getInvalidParentIds(T, taskId) ==
  IF taskId = NULL THEN <<>>
  ELSE <<taskId>> \o getTaskDescendants(T, taskId)

(***************************************************************************)
(* Dependency counter                                                      *)
(***************************************************************************)
\* children.filter(t => t.status === status).length
CountWithStatus(children, status) ==
  Len(SelectSeq(children, LAMBDA t : t.status = status))

getDependencyCounts(T, taskId) ==
  LET children == getTaskChildren(T, taskId)
  IN [total |-> Len(children),
      done |-> CountWithStatus(children, DONE),
      complete |-> CountWithStatus(children, COMPLETE)]

\* a check without the guard for a task that has no children
areAllDependenciesComplete_NoEmptyGuard(T, taskId) ==
  LET children == getTaskChildren(T, taskId)
  IN \A i \in 1..Len(children) : children[i].status = COMPLETE

areAllDependenciesComplete(T, taskId) ==
  LET children == getTaskChildren(T, taskId)
  IN IF Len(children) = 0 THEN FALSE
     ELSE \A i \in 1..Len(children) : children[i].status = COMPLETE

(***************************************************************************)
(* Status propagator                                                       *)
(***************************************************************************)
\* updates.find(u => u.id === id), as an index into updates (0: not found)
FindUpdate(updates, id) ==
  IF \E i \in 1..Len(updates) : updates[i].id = id
  THEN CHOOSE i \in 1..Len(updates) :
         /\ updates[i].id = id
         /\ \A j \in 1..(i-1) : updates[j].id # id
  ELSE 0

\* new Map(updates.map(u => [u.id, u.status])): the last entry of an id wins
UpdatedStatuses(updates) ==
  [id \in IdsOf(updates) |->
     LET last == CHOOSE i \in 1..Len(updates) :
                   /\ updates[i].id = id
                   /\ \A j \in (i+1)..Len(updates) : updates[j].id # id
     IN updates[last].status]

\* updatedStatuses.get(child.id) || child.status
EffectiveStatus(updatedStatuses, task) ==
  IF task.id \in DOMAIN updatedStatuses /\ updatedStatuses[task.id] # ""
  THEN updatedStatuses[task.id]
  ELSE task.status

\* a merge that always pushes a new entry
MergeUpdate_AlwaysPush(updates, id, status) ==
  Append(updates, [id |-> id, status |-> status])

\* existingUpdate.status = status  /  updates.push({ id, status })
MergeUpdate(updates, id, status) ==
  LET i == FindUpdate(updates, id)
  IN IF i # 0 THEN [updates EXCEPT ![i].status = status]
     ELSE Append(updates, [id |-> id, status |-> status])

RECURSIVE UpgradeDoneChildren(_, _, _, _)
\* an upward pass that leaves the DONE children as they are
UpgradeDoneChildren_None(children, i, updates, updatedStatuses) == updates

\* children.forEach: every child whose effective status is DONE is queued
\* as COMPLETE
UpgradeDoneChildren(children, i, updates, updatedStatuses) ==
  IF i > Len(children) THEN updates
  ELSE LET child == children[i]
       IN IF EffectiveStatus(updatedStatuses, child) = DONE
          THEN UpgradeDoneChildren(children, i + 1,
                 MergeUpdate(updates, child.id, COMPLETE),
                 [id \in DOMAIN updatedStatuses \cup {child.id} |->
                    IF id = child.id THEN COMPLETE ELSE updatedStatuses[id]])
          ELSE UpgradeDoneChildren(children, i + 1, updates, updatedStatuses)

\* the same test on the stored statuses, ignoring the queued updates
AllChildrenDoneOrComplete_Stored(children, updatedStatuses) ==
  \A i \in 1..Len(children) : children[i].status \in {DONE, COMPLETE}

\* a test that only IN PROGRESS children fail
AllChildrenDoneOrComplete_OnlyInProgressBlocks(children, updatedStatuses) ==
  \A i \in 1..Len(children) :
     EffectiveStatus(updatedStatuses, children[i]) # IN_PROGRESS

\* children.every(child => status === 'DONE' || status === 'COMPLETE')
AllChildrenDoneOrComplete(children, updatedStatuses) ==
  \A i \in 1..Len(children) :
     EffectiveStatus(updatedStatuses, children[i]) \in {DONE, COMPLETE}

\* an upward pass that queues the parent before its DONE children
UpwardsCompleteLevel_ParentFirst(T, parentId, updates) ==
  LET children == getTaskChildren(T, parentId)
      updatedStatuses == UpdatedStatuses(updates)
  IN IF /\ HasTask(T, parentId)
        /\ Len(children) > 0
        /\ AllChildrenDoneOrComplete(children, updatedStatuses)
     THEN [updates |->
             UpgradeDoneChildren(children, 1,
                                 MergeUpdate(updates, parentId, COMPLETE),
                                 updatedStatuses),
           next |-> GetTask(T, parentId).parentId]
     ELSE [updates |-> updates, next |-> NULL]

\* an upward pass that recurses into the parent it is at
UpwardsCompleteLevel_StaysAtParent(T, parentId, updates) ==
  LET children == getTaskChildren(T, parentId)
      updatedStatuses == UpdatedStatuses(updates)
  IN IF /\ HasTask(T, parentId)
        /\ Len(children) > 0
        /\ AllChildrenDoneOrComplete(children, updatedStatuses)
     THEN [updates |->
             MergeUpdate(UpgradeDoneChildren(children, 1, updates,
                                             updatedStatuses),
                         parentId, COMPLETE),
           next |-> parentId]
     ELSE [updates |-> updates, next |-> NULL]

\* one call of propagateUpwardsComplete up to its recursive call: the updates
\* it leaves and the parent id it recurses into (NULL: it returns)
UpwardsCompleteLevel(T, parentId, updates) ==
  IF ~HasTask(T, parentId) THEN [updates |-> updates, next |-> NULL]
  ELSE
    LET parent == GetTask(T, parentId)
        existingParentUpdate == FindUpdate(updates, parentId)
        updatedStatuses == UpdatedStatuses(updates)
        children == getTaskChildren(T, parentId)
    IN IF Len(children) = 0 THEN [updates |-> updates, next |-> NULL]
       ELSE IF AllChildrenDoneOrComplete(children, updatedStatuses)
       THEN
         LET upgraded == UpgradeDoneChildren(children, 1, updates, updatedStatuses)
             withParent ==
               IF existingParentUpdate # 0
               THEN [upgraded EXCEPT ![existingParentUpdate].status = COMPLETE]
               ELSE Append(upgraded, [id |-> parentId, status |-> COMPLETE])
         IN [updates |-> withParent, next |-> parent.parentId]
       ELSE [updates |-> updates, next |-> NULL]

RECURSIVE propagateUpwardsComplete(_, _, _)
propagateUpwardsComplete(T, parentId, updates) ==
  LET level == UpwardsCompleteLevel(T, parentId, updates)
  IN IF level.next # NULL
     THEN propagateUpwardsComplete(T, level.next, level.updates)
     ELSE level.updates

\* a reversion that sends the parent all the way back
RevertedStatus_InProgress == IN_PROGRESS

\* the status a COMPLETE parent is lowered to
RevertedStatus == DONE

\* a reversion that lowers the parent and does not go on to the grandparent
UpwardsDoneLevel_ParentOnly(T, parentId, updates) ==
  IF HasTask(T, parentId) /\ GetTask(T, parentId).status = COMPLETE
  THEN [updates |-> MergeUpdate(updates, parentId, RevertedStatus),
        next |-> NULL]
  ELSE [updates |-> updates, next |-> NULL]

\* one call of propagateUpwardsDone up to its recursive call
UpwardsDoneLevel(T, parentId, updates) ==
  IF ~HasTask(T, parentId) THEN [updates |-> updates, next |-> NULL]
  ELSE
    LET parent == GetTask(T, parentId)
        existingParentUpdate == FindUpdate(updates, parentId)
        currentParentStatus ==
          IF existingParentUpdate # 0 /\ updates[existingParentUpdate].status # ""
          THEN updates[existingParentUpdate].status
          ELSE parent.status
    IN IF currentParentStatus = COMPLETE
       THEN
         LET lowered ==
               IF existingParentUpdate # 0
               THEN [updates EXCEPT ![existingParentUpdate].status = RevertedStatus]
               ELSE Append(updates, [id |-> parentId, status |-> RevertedStatus])
         IN [updates |-> lowered, next |-> parent.parentId]
       ELSE [updates |-> updates, next |-> NULL]

RECURSIVE propagateUpwardsDone(_, _, _)
propagateUpwardsDone(T, parentId, updates) ==
  LET level == UpwardsDoneLevel(T, parentId, updates)
  IN IF level.next # NULL
     THEN propagateUpwardsDone(T, level.next, level.updates)
     ELSE level.updates

\* a propagator that seeds the list before looking the task up
AbsentTaskUpdates_Seeded(taskId, newStatus) ==
  <<[id |-> taskId, status |-> newStatus]>>

\* if (!currentTask) return updates
AbsentTaskUpdates(taskId, newStatus) == <<>>

\* a reversion for every status that is not DONE or COMPLETE
IsReversion_NotDoneOrComplete(status) == status \notin {DONE, COMPLETE}

\* Case 3: newStatus === 'IN PROGRESS'
IsReversion(status) == status = IN_PROGRESS

\* an auto-upgrade that a single child is not enough for
AllChildrenComplete_TwoOrMore(children) ==
  /\ Len(children) > 1
  /\ \A i \in 1..Len(children) : children[i].status = COMPLETE

\* children.length > 0 && children.every(child => child.status === 'COMPLETE')
AllChildrenComplete(children) ==
  /\ Len(children) > 0
  /\ \A i \in 1..Len(children) : children[i].status = COMPLETE

propagateStatusChange(T, taskId, newStatus) ==
  IF ~HasTask(T, taskId) THEN AbsentTaskUpdates(taskId, newStatus)
  ELSE
    LET currentTask == GetTask(T, taskId)
        seed == <<[id |-> taskId, status |-> newStatus]>>
        \* Case 1: all children COMPLETE upgrades the seed
        autoUpgrade ==
          newStatus = DONE /\ AllChildrenComplete(getTaskChildren(T, taskId))
        afterUpgrade ==
          IF autoUpgrade THEN [seed EXCEPT ![1].status = COMPLETE] ELSE seed
        status2 == IF autoUpgrade THEN COMPLETE ELSE newStatus
        afterCase1 ==
          IF newStatus = DONE /\ currentTask.parentId # NULL
          THEN propagateUpwardsComplete(T, currentTask.parentId, afterUpgrade)
          ELSE afterUpgrade
        \* Case 2
        afterCase2 ==
          IF status2 = COMPLETE /\ currentTask.parentId # NULL
          THEN propagateUpwardsComplete(T, currentTask.parentId, afterCase1)
          ELSE afterCase1
        \* Case 3
        afterCase3 ==
          IF IsReversion(status2) /\ currentTask.parentId # NULL
          THEN propagateUpwardsDone(T, currentTask.parentId, afterCase2)
          ELSE afterCase2
    IN afterCase3

(***************************************************************************)
(* Runs on snapshots whose parent links may loop                           *)
(*                                                                         *)
(* A run is the outcome of a call: ok says whether the call returns, value *)
(* is what it returns.  A walk over a snapshot of n tasks that takes more  *)
(* than n + 1 steps has been at some id twice; the walkers below keep no   *)
(* record of where they have been and the statuses they read only move     *)
(* towards COMPLETE, so from there the walk repeats until the engine runs  *)
(* out of stack or memory.                                                 *)
(***************************************************************************)
WalkLimit(T) == Len(T) + 1

Returns(value) == [ok |-> TRUE, value |-> value]

NeverReturns == [ok |-> FALSE, value |-> <<>>]

\* a walk that does not notice an id it has been at
Revisited_Never(currentId, visited) == FALSE

\* if (visited.has(currentId)) break
Revisited(currentId, visited) == currentId \in visited

RECURSIVE WalkParentChainRun(_, _, _, _, _)
\* the while loop of wouldCreateCircularDependency; fuel is the number of
\* times the loop may still go round
WalkParentChainRun(T, taskId, currentId, visited, fuel) ==
  IF currentId = NULL THEN Returns(FALSE)
  ELSE IF currentId = taskId THEN Returns(TRUE)
  ELSE IF Revisited(currentId, visited) THEN Returns(FALSE)
  ELSE IF fuel = 0 THEN NeverReturns
  ELSE WalkParentChainRun(T, taskId, ParentOf(T, currentId),
                          visited \cup {currentId}, fuel - 1)

wouldCreateCircularDependencyRun(T, taskId, parentId) ==
  IF parentId = NULL \/ taskId = NULL THEN Returns(FALSE)
  ELSE IF taskId = parentId THEN Returns(TRUE)
  ELSE WalkParentChainRun(T, taskId, parentId, {}, WalkLimit(T))

RECURSIVE AncestorLoopRun(_, _, _, _)
\* the while loop of getTaskAncestors, which has no visited set
AncestorLoopRun(T, currentId, ancestors, fuel) ==
  IF currentId = NULL THEN Returns(ancestors)
  ELSE IF fuel = 0 THEN NeverReturns
  ELSE AncestorLoopRun(T, ParentOf(T, currentId),
                       Append(ancestors, currentId), fuel - 1)

getTaskAncestorsRun(T, taskId) ==
  AncestorLoopRun(T, ParentOf(T, taskId), <<>>, WalkLimit(T))

RECURSIVE getTaskDescendantsRun(_, _, _)
RECURSIVE DescendantsOfChildrenRun(_, _, _, _)
\* the forEach of getTaskDescendants; fuel is the recursion depth left
DescendantsOfChildrenRun(T, children, i, fuel) ==
  IF i > Len(children) THEN Returns(<<>>)
  ELSE
    LET below == getTaskDescendantsRun(T, children[i].id, fuel - 1)
    IN IF ~below.ok THEN NeverReturns
       ELSE
         LET rest == DescendantsOfChildrenRun(T, children, i + 1, fuel)
         IN IF ~rest.ok THEN NeverReturns
            ELSE Returns(<<children[i].id>> \o below.value \o rest.value)

getTaskDescendantsRun(T, taskId, fuel) ==
  IF fuel = 0 THEN NeverReturns
  ELSE DescendantsOfChildrenRun(T, getTaskChildren(T, taskId), 1, fuel)

getInvalidParentIdsRun(T, taskId) ==
  IF taskId = NULL THEN Returns(<<>>)
  ELSE
    LET descendants == getTaskDescendantsRun(T, taskId, WalkLimit(T))
    IN IF descendants.ok THEN Returns(<<taskId>> \o descendants.value)
       ELSE NeverReturns

RECURSIVE propagateUpwardsCompleteRun(_, _, _, _)
propagateUpwardsCompleteRun(T, parentId, updates, fuel) ==
  LET level == UpwardsCompleteLevel(T, parentId, updates)
  IN IF level.next = NULL THEN Returns(level.updates)
     ELSE IF fuel = 0 THEN NeverReturns
     ELSE propagateUpwardsCompleteRun(T, level.next, level.updates, fuel - 1)

RECURSIVE propagateUpwardsDoneRun(_, _, _, _)
propagateUpwardsDoneRun(T, parentId, updates, fuel) ==
  LET level == UpwardsDoneLevel(T, parentId, updates)
  IN IF level.next = NULL THEN Returns(level.updates)
     ELSE IF fuel = 0 THEN NeverReturns
     ELSE propagateUpwardsDoneRun(T, level.next, level.updates, fuel - 1)

propagateStatusChangeRun(T, taskId, newStatus) ==
  IF ~HasTask(T, taskId) THEN Returns(AbsentTaskUpdates(taskId, newStatus))
  ELSE
    LET currentTask == GetTask(T, taskId)
        seed == <<[id |-> taskId, status |-> newStatus]>>
        autoUpgrade ==
          newStatus = DONE /\ AllChildrenComplete(getTaskChildren(T, taskId))
        afterUpgrade ==
          IF autoUpgrade THEN [seed EXCEPT ![1].status = COMPLETE] ELSE seed
        status2 == IF autoUpgrade THEN COMPLETE ELSE newStatus
        afterCase1 ==
          IF newStatus = DONE /\ currentTask.parentId # NULL
          THEN propagateUpwardsCompleteRun(T, currentTask.parentId,
                                           afterUpgrade, WalkLimit(T))
          ELSE Returns(afterUpgrade)
        afterCase2 ==
          IF ~afterCase1.ok THEN NeverReturns
          ELSE IF status2 = COMPLETE /\ currentTask.parentId # NULL
          THEN propagateUpwardsCompleteRun(T, currentTask.parentId,
                                           afterCase1.value, WalkLimit(T))
          ELSE afterCase1
        afterCase3 ==
          IF ~afterCase2.ok THEN NeverReturns
          ELSE IF IsReversion(status2) /\ currentTask.parentId # NULL
          THEN propagateUpwardsDoneRun(T, currentTask.parentId,
                                       afterCase2.value, WalkLimit(T))
          ELSE afterCase2
    IN afterCase3

RECURSIVE UpwardsCompleteSteps(_, _, _)
\* the number of calls of propagateUpwardsComplete one pass makes
UpwardsCompleteSteps(T, parentId, updates) ==
  LET level == UpwardsCompleteLevel(T, parentId, updates)
  IN IF level.next # NULL
     THEN 1 + UpwardsCompleteSteps(T, level.next, level.updates)
     ELSE 1

RECURSIVE UpwardsDoneSteps(_, _, _)
\* the number of calls of propagateUpwardsDone one pass makes
UpwardsDoneSteps(T, parentId, updates) ==
  LET level == UpwardsDoneLevel(T, parentId, updates)
  IN IF level.next # NULL
     THEN 1 + UpwardsDoneSteps(T, level.next, level.updates)
     ELSE 1

\* the upward calls of one propagateStatusChange, pass by pass
propagateStatusChangeSteps(T, taskId, newStatus) ==
  IF ~HasTask(T, taskId) THEN [case1 |-> 0, case2 |-> 0, case3 |-> 0]
  ELSE
    LET currentTask == GetTask(T, taskId)
        seed == <<[id |-> taskId, status |-> newStatus]>>
        autoUpgrade ==
          newStatus = DONE /\ AllChildrenComplete(getTaskChildren(T, taskId))
        afterUpgrade ==
          IF autoUpgrade THEN [seed EXCEPT ![1].status = COMPLETE] ELSE seed
        status2 == IF autoUpgrade THEN COMPLETE ELSE newStatus
        runsCase1 == newStatus = DONE /\ currentTask.parentId # NULL
        afterCase1 ==
          IF runsCase1
          THEN propagateUpwardsComplete(T, currentTask.parentId, afterUpgrade)
          ELSE afterUpgrade
        runsCase2 == status2 = COMPLETE /\ currentTask.parentId # NULL
        afterCase2 ==
          IF runsCase2
          THEN propagateUpwardsComplete(T, currentTask.parentId, afterCase1)
          ELSE afterCase1
        runsCase3 == IsReversion(status2) /\ currentTask.parentId # NULL
    IN [case1 |-> IF runsCase1
                  THEN UpwardsCompleteSteps(T, currentTask.parentId, afterUpgrade)
                  ELSE 0,
        case2 |-> IF runsCase2
                  THEN UpwardsCompleteSteps(T, currentTask.parentId, afterCase1)
                  ELSE 0,
        case3 |-> IF runsCase3
                  THEN UpwardsDoneSteps(T, currentTask.parentId, afterCase2)
                  ELSE 0]

(***************************************************************************)
(* Callers: applying results to the snapshot                               *)
(***************************************************************************)
\* tasks.map(t => t.id === taskId ? { ...t, ...updates } : t) with
\* updates = { parentId }
SetParent(T, taskId, parentId) ==
  [i \in 1..Len(T) |->
     IF T[i].id = taskId THEN [T[i] EXCEPT !.parentId = parentId] ELSE T[i]]

RECURSIVE ApplyUpdates(_, _, _)
\* for (const update of updates): the task with update.id, if the snapshot
\* has it, is written with update.status
ApplyUpdates(T, updates, i) ==
  IF i > Len(updates) THEN T
  ELSE ApplyUpdates(
         [k \in 1..Len(T) |->
            IF T[k].id = updates[i].id
            THEN [T[k] EXCEPT !.status = updates[i].status]
            ELSE T[k]],
         updates, i + 1)

(***************************************************************************)
(* API handlers over the store (app/api/tasks, lib/db-sqlite)              *)
(*                                                                         *)
(* tasks is the tasks table; seq is the AUTOINCREMENT sequence, the        *)
(* highest id ever given out.  A request field that is absent from the     *)
(* body is UNDEFINED (for status: the empty string).                       *)
(***************************************************************************)
UNDEFINED == -1

Response(code, error) == [code |-> code, error |-> error]

\* SELECT COUNT(*) FROM tasks WHERE parent_id = ? > 0
hasChildren(T, id) == \E i \in 1..Len(T) : T[i].parentId = id

\* INSERT: the new row gets the next id of the sequence
createTask(T, nextId, status, parentId) ==
  Append(T, [id |-> nextId,
             parentId |-> IF parentId = UNDEFINED THEN NULL ELSE parentId,
             status |-> status])

\* UPDATE tasks SET <the fields that are not undefined> WHERE id = ?
updateTask(T, id, status, parentId) ==
  [i \in 1..Len(T) |->
     IF T[i].id = id
     THEN [T[i] EXCEPT
             !.status = IF status = "" THEN @ ELSE status,
             !.parentId = IF parentId = UNDEFINED THEN @ ELSE parentId]
     ELSE T[i]]

\* DELETE FROM tasks WHERE id = ?, with ON DELETE SET NULL on parent_id
deleteTask(T, id) ==
  LET kept == SelectSeq(T, LAMBDA task : task.id # id)
  IN [i \in 1..Len(kept) |->
        IF kept[i].parentId = id THEN [kept[i] EXCEPT !.parentId = NULL]
        ELSE kept[i]]

\* the parent field of the body names a task: if (parentId)
ParentGiven(parentId) == parentId # UNDEFINED /\ parentId # NULL

\* For new tasks, we'll use a temporary high ID
PostCycleCheck(T, parentId) ==
  wouldCreateCircularDependency(T, LastId(T) + 1, parentId)

\* const parentTask = await taskDB.getTaskById(parentId); if (!parentTask) 404
ParentFound(T, parentId) == HasTask(T, parentId)

\* if (await taskDB.hasChildren(id)) 400
DeleteBlocked(T, id) == hasChildren(T, id)

\* a handler that hands the body's parentId to updateTask as it is
PutOutcome_PassesNull(T, id, status, parentId) ==
  IF ~HasTask(T, id)
  THEN [response |-> Response(404, "Task not found"), store |-> T]
  ELSE
    LET existingTask == GetTask(T, id)
        parentChanged ==
          parentId # UNDEFINED /\ parentId # existingTask.parentId
    IN IF parentChanged /\ wouldCreateCircularDependency(T, id, parentId)
       THEN [response |->
               Response(400, "This would create a circular dependency"),
             store |-> T]
       ELSE IF parentChanged /\ parentId # NULL /\ ~ParentFound(T, parentId)
       THEN [response |-> Response(404, "Parent task not found"), store |-> T]
       ELSE [response |-> Response(200, ""),
             store |-> updateTask(T, id, status, parentId)]

\* the PUT handler served in one piece: its response and the store it leaves
PutOutcome(T, id, status, parentId) ==
  IF ~HasTask(T, id)
  THEN [response |-> Response(404, "Task not found"), store |-> T]
  ELSE
    LET existingTask == GetTask(T, id)
        parentChanged ==
          parentId # UNDEFINED /\ parentId # existingTask.parentId
    IN IF parentChanged /\ wouldCreateCircularDependency(T, id, parentId)
       THEN [response |->
               Response(400, "This would create a circular dependency"),
             store |-> T]
       ELSE IF parentChanged /\ parentId # NULL /\ ~ParentFound(T, parentId)
       THEN [response |-> Response(404, "Parent task not found"), store |-> T]
       ELSE [response |-> Response(200, ""),
             store |-> updateTask(T, id, status,
                                  IF parentId = NULL THEN UNDEFINED
                                  ELSE parentId)]

(***************************************************************************)
(* Page handlers (components/task-table-hierarchical)                      *)
(***************************************************************************)
RECURSIVE MapSetAll(_, _, _)
\* updates.forEach(u => statusUpdatesToApply.set(u.id, u.status)): a Map keeps
\* the place of a key it already holds and takes the new value
MapSetAll(map, updates, i) ==
  IF i > Len(updates) THEN map
  ELSE MapSetAll(MergeUpdate(map, updates[i].id, updates[i].status),
                 updates, i + 1)

\* tasks.find(t => t.id === parentId)?.status || 'IN PROGRESS'
PassStatus(T, parentId) ==
  IF HasTask(T, parentId) /\ GetTask(T, parentId).status # ""
  THEN GetTask(T, parentId).status
  ELSE IN_PROGRESS

\* if (parentId) propagateStatusChange(updatedTasks, parentId, <its status>)
ParentPass(T, updatedTasks, parentId) ==
  IF parentId = NULL THEN <<>>
  ELSE propagateStatusChange(updatedTasks, parentId, PassStatus(T, parentId))

\* a merge that takes the new-parent pass first
MergePasses_NewFirst(oldParentUpdates, newParentUpdates) ==
  MapSetAll(MapSetAll(<<>>, newParentUpdates, 1), oldParentUpdates, 1)

\* statusUpdatesToApply after both forEach loops
MergePasses(oldParentUpdates, newParentUpdates) ==
  MapSetAll(MapSetAll(<<>>, oldParentUpdates, 1), newParentUpdates, 1)

RECURSIVE WriteStatuses(_, _, _, _, _)
\* for (const [id, status] of statusUpdatesToApply): one PUT per entry with
\* the body { ...taskToUpdate, status }; the response is not looked at
WriteStatuses(store, T, taskId, map, i) ==
  IF i > Len(map) THEN store
  ELSE IF map[i].id = taskId \/ ~HasTask(T, map[i].id)
  THEN WriteStatuses(store, T, taskId, map, i + 1)
  ELSE WriteStatuses(
         PutOutcome(store, map[i].id, map[i].status,
                    GetTask(T, map[i].id).parentId).store,
         T, taskId, map, i + 1)

\* task.status === 'DONE' || task.status === 'COMPLETE' ? 'IN PROGRESS' : 'DONE'
ToggledStatus(status) ==
  IF status = DONE \/ status = COMPLETE THEN IN_PROGRESS ELSE DONE

RECURSIVE WriteBatch_RollsBack(_, _, _, _, _)
\* a loop that puts the store back as it was when a write fails
WriteBatch_RollsBack(store, T, updates, i, failAt) ==
  IF i > Len(updates) THEN [store |-> store, written |-> i - 1, threw |-> FALSE]
  ELSE IF ~HasTask(T, updates[i].id)
  THEN WriteBatch_RollsBack(store, T, updates, i + 1, failAt)
  ELSE LET put == PutOutcome(store, updates[i].id, updates[i].status,
                             GetTask(T, updates[i].id).parentId)
       IN IF i = failAt \/ put.response.code # 200
          THEN [store |-> T, written |-> i - 1, threw |-> TRUE]
          ELSE WriteBatch_RollsBack(put.store, T, updates, i + 1, failAt)

RECURSIVE WriteBatch(_, _, _, _, _)
\* for (const update of updates): one PUT per entry with the body
\* { ...taskToUpdate, status: update.status }; if (!response.ok) throw.  The
\* write numbered failAt is the one the server or the network fails
WriteBatch(store, T, updates, i, failAt) ==
  IF i > Len(updates) THEN [store |-> store, written |-> i - 1, threw |-> FALSE]
  ELSE IF ~HasTask(T, updates[i].id)
  THEN WriteBatch(store, T, updates, i + 1, failAt)
  ELSE LET put == PutOutcome(store, updates[i].id, updates[i].status,
                             GetTask(T, updates[i].id).parentId)
       IN IF i = failAt \/ put.response.code # 200
          THEN [store |-> store, written |-> i - 1, threw |-> TRUE]
          ELSE WriteBatch(put.store, T, updates, i + 1, failAt)

\* what a run of handleToggleStatus leaves to look at: the tasks prop it was
\* called with, the batch, how many entries were written, and whether it threw
NoBatch ==
  [ran |-> FALSE, snapshot |-> <<>>, updates |-> <<>>, written |-> 0,
   threw |-> FALSE]

\* what a run of handleUpdateTask leaves to look at: the tasks prop it was
\* called with, the two passes and the batch it wrote
NoPasses ==
  [ran |-> FALSE, snapshot |-> <<>>, old |-> <<>>, new |-> <<>>,
   merged |-> <<>>]

(***************************************************************************)
(* Snapshots                                                               *)
(***************************************************************************)
\* the ids of S in ascending order (ORDER BY id ASC)
SortedIds(S) ==
  [i \in 1..Cardinality(S) |->
     CHOOSE id \in S : Cardinality({other \in S : other <= id}) = i]

MkSnapshot(S, par, st) ==
  LET ids == SortedIds(S)
  IN [i \in 1..Len(ids) |->
        [id |-> ids[i], parentId |-> par[ids[i]], status |-> st[ids[i]]]]

\* the parent relation has a cycle iff some non-empty set of tasks is closed
\* under taking the parent
HasCycle(T) ==
  \E C \in SUBSET IdsOf(T) :
     /\ C # {}
     /\ \A i \in 1..Len(T) : T[i].id \in C => T[i].parentId \in C

Acyclic(T) == ~HasCycle(T)

\* every acyclic snapshot over the ids of idSet with statuses from statusSet;
\* a parentId may name a task the snapshot does not hold
SnapshotsOver(idSet, statusSet) ==
  UNION { { MkSnapshot(S, par, st) :
              par \in {f \in [S -> {NULL} \cup idSet] :
                         Acyclic(MkSnapshot(S, f, [id \in S |-> IN_PROGRESS]))},
              st \in [S -> statusSet] } :
          S \in SUBSET idSet }

Snapshots(statusSet) == SnapshotsOver(Ids, statusSet)

\* every snapshot over the ids of idSet, whatever its parent links: loops,
\* tasks that are their own parent and parents the snapshot does not hold
AnySnapshots(idSet, statusSet) ==
  UNION { { MkSnapshot(S, par, st) :
              par \in [S -> {NULL} \cup idSet], st \in [S -> statusSet] } :
          S \in SUBSET idSet }

\* FOREIGN KEY (parent_id) REFERENCES tasks(id): every parentId the store holds
\* names a task of the store
ParentsExist(T) ==
  \A i \in 1..Len(T) : T[i].parentId # NULL => HasTask(T, T[i].parentId)

\* the snapshots the page loads from the store: acyclic, every parent present
StoreSnapshots(idSet, statusSet) ==
  {T \in SnapshotsOver(idSet, statusSet) : ParentsExist(T)}

NoCall == [op |-> "none", taskId |-> NULL, parentId |-> NULL, status |-> ""]

NotApplied == [taskId |-> NULL, status |-> ""]

(***************************************************************************)
(* Actions                                                                 *)
(***************************************************************************)
CallWouldCreateCircularDependency(taskId, parentId) ==
  /\ call' = [op |-> "wouldCreateCircularDependency", taskId |-> taskId,
              parentId |-> parentId, status |-> ""]
  /\ ret' = wouldCreateCircularDependency(tasks, taskId, parentId)
  /\ applied' = NotApplied
  /\ UNCHANGED <<tasks, seq, inflight>>

\* the caller commits the parent change the cycle check has let through; the
\* proposed parent is written as given, whether or not the snapshot holds it
Reassign ==
  /\ call.op = "wouldCreateCircularDependency"
  /\ ret = FALSE
  /\ HasTask(tasks, call.taskId)
  /\ tasks' = SetParent(tasks, call.taskId, call.parentId)
  /\ call' = [call EXCEPT !.op = "reassigned"]
  /\ ret' = FALSE
  /\ applied' = NotApplied
  /\ UNCHANGED <<seq, inflight>>

CallGetTaskAncestors(taskId) ==
  /\ call' = [op |-> "getTaskAncestors", taskId |-> taskId,
              parentId |-> NULL, status |-> ""]
  /\ ret' = getTaskAncestors(tasks, taskId)
  /\ applied' = NotApplied
  /\ UNCHANGED <<tasks, seq, inflight>>

CallGetTaskDescendants(taskId) ==
  /\ call' = [op |-> "getTaskDescendants", taskId |-> taskId,
              parentId |-> NULL, status |-> ""]
  /\ ret' = getTaskDescendants(tasks, taskId)
  /\ applied' = NotApplied
  /\ UNCHANGED <<tasks, seq, inflight>>

CallGetInvalidParentIds(taskId) ==
  /\ call' = [op |-> "getInvalidParentIds", taskId |-> taskId,
              parentId |-> NULL, status |-> ""]
  /\ ret' = getInvalidParentIds(tasks, taskId)
  /\ applied' = NotApplied
  /\ UNCHANGED <<tasks, seq, inflight>>

CallGetDependencyCounts(taskId) ==
  /\ call' = [op |-> "getDependencyCounts", taskId |-> taskId,
              parentId |-> NULL, status |-> ""]
  /\ ret' = getDependencyCounts(tasks, taskId)
  /\ applied' = NotApplied
  /\ UNCHANGED <<tasks, seq, inflight>>

CallAreAllDependenciesComplete(taskId) ==
  /\ call' = [op |-> "areAllDependenciesComplete", taskId |-> taskId,
              parentId |-> NULL, status |-> ""]
  /\ ret' = areAllDependenciesComplete(tasks, taskId)
  /\ applied' = NotApplied
  /\ UNCHANGED <<tasks, seq, inflight>>

\* a propagator that writes the new statuses onto the task records it was given
CallPropagateStatusChange_InPlace(taskId, newStatus) ==
  /\ call' = [op |-> "propagateStatusChange", taskId |-> taskId,
              parentId |-> NULL, status |-> newStatus]
  /\ ret' = propagateStatusChange(tasks, taskId, newStatus)
  /\ applied' = IF applied = [taskId |-> taskId, status |-> newStatus]
                THEN applied ELSE NotApplied
  /\ tasks' = ApplyUpdates(tasks, ret', 1)
  /\ UNCHANGED <<seq, inflight>>

CallPropagateStatusChange(taskId, newStatus) ==
  /\ call' = [op |-> "propagateStatusChange", taskId |-> taskId,
              parentId |-> NULL, status |-> newStatus]
  /\ ret' = propagateStatusChange(tasks, taskId, newStatus)
  \* a repeat of the call whose updates were just applied is remembered as such
  /\ applied' = IF applied = [taskId |-> taskId, status |-> newStatus]
                THEN applied ELSE NotApplied
  /\ UNCHANGED <<tasks, seq, inflight>>

\* the caller writes every returned update, in list order
ApplyReturnedUpdates ==
  /\ call.op = "propagateStatusChange"
  /\ tasks' = ApplyUpdates(tasks, ret, 1)
  /\ applied' = [taskId |-> call.taskId, status |-> call.status]
  /\ call' = [call EXCEPT !.op = "applied"]
  /\ UNCHANGED <<ret, seq, inflight>>

RunWouldCreateCircularDependency(taskId, parentId) ==
  /\ call' = [op |-> "wouldCreateCircularDependency", taskId |-> taskId,
              parentId |-> parentId, status |-> ""]
  /\ ret' = wouldCreateCircularDependencyRun(tasks, taskId, parentId)
  /\ UNCHANGED <<tasks, applied, seq, inflight>>

RunGetTaskAncestors(taskId) ==
  /\ call' = [op |-> "getTaskAncestors", taskId |-> taskId,
              parentId |-> NULL, status |-> ""]
  /\ ret' = getTaskAncestorsRun(tasks, taskId)
  /\ UNCHANGED <<tasks, applied, seq, inflight>>

RunGetTaskDescendants(taskId) ==
  /\ call' = [op |-> "getTaskDescendants", taskId |-> taskId,
              parentId |-> NULL, status |-> ""]
  /\ ret' = getTaskDescendantsRun(tasks, taskId, WalkLimit(tasks))
  /\ UNCHANGED <<tasks, applied, seq, inflight>>

RunGetInvalidParentIds(taskId) ==
  /\ call' = [op |-> "getInvalidParentIds", taskId |-> taskId,
              parentId |-> NULL, status |-> ""]
  /\ ret' = getInvalidParentIdsRun(tasks, taskId)
  /\ UNCHANGED <<tasks, applied, seq, inflight>>

RunPropagateStatusChange(taskId, newStatus) ==
  /\ call' = [op |-> "propagateStatusChange", taskId |-> taskId,
              parentId |-> NULL, status |-> newStatus]
  /\ ret' = propagateStatusChangeRun(tasks, taskId, newStatus)
  /\ UNCHANGED <<tasks, applied, seq, inflight>>

\* POST /api/tasks
POST(header, parentId) ==
  /\ call' = [op |-> "POST", taskId |-> NULL, parentId |-> parentId,
              status |-> header]
  /\ applied' = NotApplied
  /\ IF header = ""
     THEN /\ ret' = Response(400, "Task name is required")
          /\ UNCHANGED <<tasks, seq, inflight>>
     ELSE IF ParentGiven(parentId) /\ PostCycleCheck(tasks, parentId)
     THEN /\ ret' = Response(400, "This would create a circular dependency")
          /\ UNCHANGED <<tasks, seq, inflight>>
     ELSE IF ParentGiven(parentId) /\ ~ParentFound(tasks, parentId)
     THEN /\ ret' = Response(404, "Parent task not found")
          /\ UNCHANGED <<tasks, seq, inflight>>
     ELSE /\ seq < MaxId
          /\ tasks' = createTask(tasks, seq + 1, IN_PROCESS,
                                 IF ParentGiven(parentId) THEN parentId
                                 ELSE UNDEFINED)
          /\ seq' = seq + 1
          /\ UNCHANGED inflight
          /\ ret' = Response(201, "")

\* PUT /api/tasks/[id]
PUT(id, status, parentId) ==
  /\ call' = [op |-> "PUT", taskId |-> id, parentId |-> parentId,
              status |-> status]
  /\ applied' = NotApplied
  /\ UNCHANGED <<seq, inflight>>
  /\ ret' = PutOutcome(tasks, id, status, parentId).response
  /\ tasks' = PutOutcome(tasks, id, status, parentId).store

\* DELETE /api/tasks/[id]
DELETE(id) ==
  /\ call' = [op |-> "DELETE", taskId |-> id, parentId |-> NULL, status |-> ""]
  /\ applied' = NotApplied
  /\ UNCHANGED <<seq, inflight>>
  /\ IF DeleteBlocked(tasks, id)
     THEN /\ ret' = Response(400, "Cannot delete task with child tasks")
          /\ UNCHANGED tasks
     ELSE IF ~HasTask(tasks, id)
     THEN /\ ret' = Response(404, "Task not found")
          /\ UNCHANGED tasks
     ELSE /\ tasks' = deleteTask(tasks, id)
          /\ ret' = Response(200, "")

\* handleUpdateTask(taskId, { parentId }) on a page whose snapshot is the
\* store; the page reloads the store when the handler is through
HandleUpdateTask(taskId, parentId) ==
  /\ call' = [op |-> "handleUpdateTask", taskId |-> taskId,
              parentId |-> parentId, status |-> ""]
  /\ applied' = NotApplied
  /\ UNCHANGED <<seq, inflight>>
  /\ IF ~HasTask(tasks, taskId)
     THEN ret' = NoPasses /\ UNCHANGED tasks
     ELSE
       LET task == GetTask(tasks, taskId)
           first == PutOutcome(tasks, taskId, task.status, parentId)
           updatedTasks == SetParent(tasks, taskId, parentId)
           oldParentUpdates == ParentPass(tasks, updatedTasks, task.parentId)
           newParentUpdates == ParentPass(tasks, updatedTasks, parentId)
           statusUpdatesToApply ==
             MergePasses(oldParentUpdates, newParentUpdates)
       IN IF first.response.code # 200
          THEN ret' = NoPasses /\ UNCHANGED tasks
          ELSE IF parentId = task.parentId
          THEN ret' = NoPasses /\ tasks' = first.store
          ELSE /\ ret' = [ran |-> TRUE, snapshot |-> tasks,
                          old |-> oldParentUpdates,
                          new |-> newParentUpdates,
                          merged |-> statusUpdatesToApply]
               /\ tasks' = WriteStatuses(first.store, tasks, taskId,
                                         statusUpdatesToApply, 1)

\* handleToggleStatus(task) on a page whose snapshot is the store; failAt is
\* the write that fails, or one past the batch when none does
HandleToggleStatus(taskId, failAt) ==
  /\ HasTask(tasks, taskId)
  /\ LET task == GetTask(tasks, taskId)
         newStatus == ToggledStatus(task.status)
         updates == propagateStatusChange(tasks, taskId, newStatus)
         batch == WriteBatch(tasks, tasks, updates, 1, failAt)
     IN /\ failAt \in 1..(Len(updates) + 1)
        /\ call' = [op |-> "handleToggleStatus", taskId |-> taskId,
                    parentId |-> NULL, status |-> newStatus]
        /\ ret' = [ran |-> TRUE, snapshot |-> tasks, updates |-> updates,
                   written |-> batch.written, threw |-> batch.threw]
        /\ tasks' = batch.store
  /\ applied' = NotApplied
  /\ UNCHANGED <<seq, inflight>>

(***************************************************************************)
(* The PUT handler one await at a time.  inflight holds the requests the   *)
(* server is handling: where each one stands and what it has read so far.  *)
(***************************************************************************)
NewRequest(id, parentId) ==
  [pc |-> "getTaskById", id |-> id, parentId |-> parentId,
   existingTask |-> NULL, existingParent |-> NULL,
   allTasks |-> <<>>, parentTask |-> FALSE, response |-> Response(0, "")]

Finished(req, response) == [req EXCEPT !.pc = "responded",
                                        !.response = response]

\* the store after the request's updateTask(id, { ..., parentId })
RequestWrite(T, req) ==
  updateTask(T, req.id, "",
             IF req.parentId = NULL THEN UNDEFINED ELSE req.parentId)

\* a PUT /api/tasks/[id] with body { parentId } reaches the handler
PutArrives(id, parentId) ==
  /\ Len(inflight) < MaxRequests
  /\ inflight' = Append(inflight, NewRequest(id, parentId))
  /\ call' = [op |-> "PUT arrives", taskId |-> id, parentId |-> parentId,
              status |-> ""]
  /\ UNCHANGED <<tasks, ret, applied, seq>>

\* const existingTask = await taskDB.getTaskById(id): the row is read, then
\* the handler waits
PutReadsTask(r) ==
  /\ r \in 1..Len(inflight)
  /\ inflight[r].pc = "getTaskById"
  /\ inflight' =
       [inflight EXCEPT ![r] =
          [@ EXCEPT !.pc = "existingTask",
                    !.existingTask =
                       IF HasTask(tasks, inflight[r].id) THEN inflight[r].id
                       ELSE NULL,
                    !.existingParent = ParentOf(tasks, inflight[r].id)]]
  /\ call' = [op |-> "PUT getTaskById", taskId |-> inflight[r].id,
              parentId |-> inflight[r].parentId, status |-> ""]
  /\ UNCHANGED <<tasks, ret, applied, seq>>

\* if (!existingTask) 404; if the parent changes, the task set is read
\* (await taskDB.getAllTasks()); else the row is written
PutTestsTask(r) ==
  /\ r \in 1..Len(inflight)
  /\ inflight[r].pc = "existingTask"
  /\ call' = [op |-> "PUT existingTask", taskId |-> inflight[r].id,
              parentId |-> inflight[r].parentId, status |-> ""]
  /\ UNCHANGED <<applied, seq>>
  /\ LET req == inflight[r]
     IN IF req.existingTask = NULL
        THEN /\ inflight' = [inflight EXCEPT ![r] =
                               Finished(req, Response(404, "Task not found"))]
             /\ ret' = Response(404, "Task not found")
             /\ UNCHANGED tasks
        ELSE IF req.parentId # UNDEFINED /\ req.parentId # req.existingParent
        THEN /\ inflight' = [inflight EXCEPT ![r] =
                               [req EXCEPT !.pc = "allTasks",
                                           !.allTasks = tasks]]
             /\ UNCHANGED <<tasks, ret>>
        ELSE /\ inflight' = [inflight EXCEPT ![r] =
                               Finished(req, Response(200, ""))]
             /\ ret' = Response(200, "")
             /\ tasks' = RequestWrite(tasks, req)

\* the cycle check on the task set that was read; then the parent row is read
\* (await taskDB.getTaskById(parentId)), or, for parentId null, the row is
\* written
PutChecksCycle(r) ==
  /\ r \in 1..Len(inflight)
  /\ inflight[r].pc = "allTasks"
  /\ call' = [op |-> "PUT allTasks", taskId |-> inflight[r].id,
              parentId |-> inflight[r].parentId, status |-> ""]
  /\ UNCHANGED <<applied, seq>>
  /\ LET req == inflight[r]
     IN IF wouldCreateCircularDependency(req.allTasks, req.id, req.parentId)
        THEN /\ inflight' =
                  [inflight EXCEPT ![r] =
                     Finished(req, Response(400,
                                "This would create a circular dependency"))]
             /\ ret' = Response(400, "This would create a circular dependency")
             /\ UNCHANGED tasks
        ELSE IF req.parentId # NULL
        THEN /\ inflight' = [inflight EXCEPT ![r] =
                               [req EXCEPT !.pc = "parentTask",
                                           !.parentTask =
                                              ParentFound(tasks, req.parentId)]]
             /\ UNCHANGED <<tasks, ret>>
        ELSE /\ inflight' = [inflight EXCEPT ![r] =
                               Finished(req, Response(200, ""))]
             /\ ret' = Response(200, "")
             /\ tasks' = RequestWrite(tasks, req)

\* if (!parentTask) 404; else await taskDB.updateTask(id, { ..., parentId })
PutWrites(r) ==
  /\ r \in 1..Len(inflight)
  /\ inflight[r].pc = "parentTask"
  /\ call' = [op |-> "PUT parentTask", taskId |-> inflight[r].id,
              parentId |-> inflight[r].parentId, status |-> ""]
  /\ UNCHANGED <<applied, seq>>
  /\ LET req == inflight[r]
     IN IF ~req.parentTask
        THEN /\ inflight' =
                  [inflight EXCEPT ![r] =
                     Finished(req, Response(404, "Parent task not found"))]
             /\ ret' = Response(404, "Parent task not found")
             /\ UNCHANGED tasks
        ELSE /\ inflight' = [inflight EXCEPT ![r] =
                               Finished(req, Response(200, ""))]
             /\ ret' = Response(200, "")
             /\ tasks' = RequestWrite(tasks, req)

(***************************************************************************)
(* Specifications                                                          *)
(***************************************************************************)
\* hierarchy queries and parent reassignment over every acyclic snapshot
InitTree ==
  /\ tasks \in Snapshots({IN_PROGRESS})
  /\ call = NoCall
  /\ ret = FALSE
  /\ applied = NotApplied
  /\ seq = LastId(tasks)
  /\ inflight = <<>>

NextTree ==
  \/ \E taskId \in {NULL} \cup Ids, parentId \in {NULL} \cup Ids :
        CallWouldCreateCircularDependency(taskId, parentId)
  \/ Reassign
  \/ \E taskId \in Ids : CallGetTaskAncestors(taskId)
  \/ \E taskId \in Ids : CallGetTaskDescendants(taskId)

SpecTree == InitTree /\ [][NextTree]_vars

\* status propagation over every acyclic snapshot and every status assignment
Init ==
  /\ tasks \in Snapshots(CoreStatuses)
  /\ call = NoCall
  /\ ret = FALSE
  /\ applied = NotApplied
  /\ seq = LastId(tasks)
  /\ inflight = <<>>

Next ==
  \/ \E taskId \in Ids, newStatus \in CoreStatuses :
        CallPropagateStatusChange(taskId, newStatus)
  \/ ApplyReturnedUpdates

Spec == Init /\ [][Next]_vars

\* status propagation from a tree in which nothing is COMPLETE yet, driven by
\* the two statuses the checkbox toggles between
InitFresh ==
  /\ tasks \in Snapshots({IN_PROGRESS, DONE})
  /\ call = NoCall
  /\ ret = FALSE
  /\ applied = NotApplied
  /\ seq = LastId(tasks)
  /\ inflight = <<>>

NextFresh ==
  \/ \E taskId \in Ids, newStatus \in {DONE, IN_PROGRESS} :
        CallPropagateStatusChange(taskId, newStatus)
  \/ ApplyReturnedUpdates

SpecFresh == InitFresh /\ [][NextFresh]_vars

\* the descendant walk and the parent exclusion list over every acyclic
\* snapshot of up to MaxWalkId tasks
InitWalk ==
  /\ tasks \in SnapshotsOver(WalkIds, {IN_PROGRESS})
  /\ call = NoCall
  /\ ret = FALSE
  /\ applied = NotApplied
  /\ seq = LastId(tasks)
  /\ inflight = <<>>

NextWalk ==
  \/ \E taskId \in WalkIds : CallGetTaskDescendants(taskId)
  \/ \E taskId \in {NULL} \cup WalkIds : CallGetInvalidParentIds(taskId)

SpecWalk == InitWalk /\ [][NextWalk]_vars

\* the dependency counter over every acyclic snapshot and every status
\* assignment, the statuses the propagator does not interpret included
InitCount ==
  /\ tasks \in Snapshots(Statuses)
  /\ call = NoCall
  /\ ret = FALSE
  /\ applied = NotApplied
  /\ seq = LastId(tasks)
  /\ inflight = <<>>

NextCount ==
  \/ \E taskId \in Ids : CallGetDependencyCounts(taskId)
  \/ \E taskId \in Ids : CallAreAllDependenciesComplete(taskId)

SpecCount == InitCount /\ [][NextCount]_vars

\* the core functions called on any snapshot, its parent links looping or not
InitCyclic ==
  /\ tasks \in AnySnapshots(Ids, CoreStatuses)
  /\ call = NoCall
  /\ ret = Returns(FALSE)
  /\ applied = NotApplied
  /\ seq = LastId(tasks)
  /\ inflight = <<>>

NextCyclic ==
  \/ \E taskId \in {NULL} \cup Ids, parentId \in {NULL} \cup Ids :
        RunWouldCreateCircularDependency(taskId, parentId)
  \/ \E taskId \in Ids : RunGetTaskAncestors(taskId)
  \/ \E taskId \in Ids : RunGetTaskDescendants(taskId)
  \/ \E taskId \in {NULL} \cup Ids : RunGetInvalidParentIds(taskId)
  \/ \E taskId \in Ids, newStatus \in CoreStatuses :
        RunPropagateStatusChange(taskId, newStatus)

SpecCyclic == InitCyclic /\ [][NextCyclic]_vars

\* the API serving one request at a time, from an empty store
InitApi ==
  /\ tasks = <<>>
  /\ call = NoCall
  /\ ret = Response(0, "")
  /\ applied = NotApplied
  /\ seq = 0
  /\ inflight = <<>>

NextApi ==
  \/ \E header \in {"", "task"}, parentId \in {UNDEFINED, NULL} \cup Ids :
        POST(header, parentId)
  \/ \E id \in Ids, status \in {"", DONE},
        parentId \in {UNDEFINED, NULL} \cup Ids :
        PUT(id, status, parentId)
  \/ \E id \in Ids : DELETE(id)

SpecApi == InitApi /\ [][NextApi]_vars

\* status propagation over snapshots that also hold a status token the engine
\* does not know, and calls that set one
InitTokens ==
  /\ tasks \in Snapshots({IN_PROGRESS, IN_PROCESS, DONE})
  /\ call = NoCall
  /\ ret = FALSE
  /\ applied = NotApplied
  /\ seq = LastId(tasks)
  /\ inflight = <<>>

NextTokens ==
  \E taskId \in Ids, newStatus \in Statuses :
     CallPropagateStatusChange(taskId, newStatus)

SpecTokens == InitTokens /\ [][NextTokens]_vars

\* calls that set any status, known to the engine or not, over snapshots with
\* COMPLETE parents and children
InitOpaque ==
  /\ tasks \in Snapshots({IN_PROGRESS, COMPLETE})
  /\ call = NoCall
  /\ ret = FALSE
  /\ applied = NotApplied
  /\ seq = LastId(tasks)
  /\ inflight = <<>>

NextOpaque ==
  \E taskId \in Ids, newStatus \in Statuses :
     CallPropagateStatusChange(taskId, newStatus)

SpecOpaque == InitOpaque /\ [][NextOpaque]_vars

\* the cycle check on any snapshot, its parent links looping or not
InitCycleCheck ==
  /\ tasks \in AnySnapshots(Ids, {IN_PROGRESS})
  /\ call = NoCall
  /\ ret = Returns(FALSE)
  /\ applied = NotApplied
  /\ seq = LastId(tasks)
  /\ inflight = <<>>

NextCycleCheck ==
  \E taskId \in {NULL} \cup Ids, parentId \in {NULL} \cup Ids :
     RunWouldCreateCircularDependency(taskId, parentId)

SpecCycleCheck == InitCycleCheck /\ [][NextCycleCheck]_vars

\* propagateStatusChange run on every acyclic snapshot, for every task id and
\* every status
InitDepth ==
  /\ tasks \in Snapshots(CoreStatuses)
  /\ call = NoCall
  /\ ret = Returns(<<>>)
  /\ applied = NotApplied
  /\ seq = LastId(tasks)
  /\ inflight = <<>>

NextDepth ==
  \E taskId \in Ids, newStatus \in Statuses :
     RunPropagateStatusChange(taskId, newStatus)

SpecDepth == InitDepth /\ [][NextDepth]_vars

\* re-parenting from the page, over every tree the store can hold
InitReparent ==
  /\ tasks \in StoreSnapshots(Ids, {IN_PROGRESS, COMPLETE})
  /\ call = NoCall
  /\ ret = NoPasses
  /\ applied = NotApplied
  /\ seq = LastId(tasks)
  /\ inflight = <<>>

NextReparent ==
  \E taskId \in Ids, parentId \in {NULL} \cup Ids :
     HandleUpdateTask(taskId, parentId)

SpecReparent == InitReparent /\ [][NextReparent]_vars

\* PUT requests whose steps interleave, over every tree the store can hold
InitRace ==
  /\ tasks \in StoreSnapshots(Ids, {IN_PROGRESS})
  /\ call = NoCall
  /\ ret = Response(0, "")
  /\ applied = NotApplied
  /\ seq = LastId(tasks)
  /\ inflight = <<>>

NextRace ==
  \/ \E id \in Ids, parentId \in {UNDEFINED, NULL} \cup Ids :
        PutArrives(id, parentId)
  \/ \E r \in 1..MaxRequests : PutReadsTask(r)
  \/ \E r \in 1..MaxRequests : PutTestsTask(r)
  \/ \E r \in 1..MaxRequests : PutChecksCycle(r)
  \/ \E r \in 1..MaxRequests : PutWrites(r)

SpecRace == InitRace /\ [][NextRace]_vars

\* status toggles from the page with writes that can fail, over every tree
\* the store can hold
InitToggle ==
  /\ tasks \in StoreSnapshots(Ids, {IN_PROGRESS, DONE})
  /\ call = NoCall
  /\ ret = NoBatch
  /\ applied = NotApplied
  /\ seq = LastId(tasks)
  /\ inflight = <<>>

NextToggle ==
  \E taskId \in Ids, failAt \in 1..(MaxId + 1) :
     HandleToggleStatus(taskId, failAt)

SpecToggle == InitToggle /\ [][NextToggle]_vars

\* PUT requests with a body of header and parentId, as handleSave sends them,
\* over every tree the store can hold
InitPut ==
  /\ tasks \in StoreSnapshots(Ids, {IN_PROGRESS})
  /\ call = NoCall
  /\ ret = Response(0, "")
  /\ applied = NotApplied
  /\ seq = LastId(tasks)
  /\ inflight = <<>>

NextPut ==
  \E id \in Ids, parentId \in {UNDEFINED, NULL} \cup Ids :
     PUT(id, "", parentId)

SpecPut == InitPut /\ [][NextPut]_vars

(***************************************************************************)
(* Properties                                                              *)
(***************************************************************************)
IsWouldCall == call.op = "wouldCreateCircularDependency"
IsAncestorsCall == call.op = "getTaskAncestors"
IsDescendantsCall == call.op = "getTaskDescendants"
IsPropagateCall == call.op = "propagateStatusChange"

\* C1 (SpecTree): a parent reassignment that the cycle check lets through
\* leaves the tree acyclic: no task is its own ancestor.
C1_AcyclicityPreserved == Acyclic(tasks)

\* a task has been moved below a task that itself has a parent in the tree
C1_Witness ==
  /\ call.op = "reassigned"
  /\ call.parentId # NULL
  /\ ParentOf(tasks, call.taskId) = call.parentId
  /\ HasTask(tasks, ParentOf(tasks, call.parentId))

\* C2 (SpecTree): wouldCreateCircularDependency(T, x, x) is true for every
\* task id x, whatever the snapshot holds.
C2_SelfParentRejected ==
  (IsWouldCall /\ call.taskId # NULL /\ call.taskId = call.parentId)
    => ret = TRUE

\* the self-parent check on an id the snapshot does not hold
C2_Witness ==
  /\ IsWouldCall
  /\ call.taskId \in Ids
  /\ call.taskId = call.parentId
  /\ ~HasTask(tasks, call.taskId)
  /\ ret = TRUE

\* C8 (SpecTree): for tasks a and b of an acyclic tree, b is among the
\* descendants of a exactly when a is among the ancestors of b.
C8_AncestorDescendantDuality ==
  /\ (IsDescendantsCall /\ HasTask(tasks, call.taskId)) =>
       \A b \in IdsOf(tasks) :
          (b \in Range(ret)) <=>
            (call.taskId \in Range(getTaskAncestors(tasks, b)))
  /\ (IsAncestorsCall /\ HasTask(tasks, call.taskId)) =>
       \A a \in IdsOf(tasks) :
          (a \in Range(ret)) <=>
            (call.taskId \in Range(getTaskDescendants(tasks, a)))

\* the descendants returned include a grandchild
C8_Witness ==
  /\ IsDescendantsCall
  /\ HasTask(tasks, call.taskId)
  /\ \E b \in Range(ret) :
        /\ ParentOf(tasks, b) # call.taskId
        /\ call.taskId \in Range(getTaskAncestors(tasks, b))

\* C9 (SpecTree): for two distinct non-null ids the cycle check is true
\* exactly when taskId is on the parent chain that starts at parentId; it is
\* false whenever either id is null.
C9_CycleCheckIsAncestorTest ==
  IsWouldCall =>
    /\ (call.taskId = NULL \/ call.parentId = NULL) => ret = FALSE
    /\ (call.taskId # NULL /\ call.parentId # NULL
          /\ call.taskId # call.parentId) =>
         (ret = TRUE <=>
            call.taskId \in Range(getTaskAncestors(tasks, call.parentId)))

\* the check finds taskId two levels above the proposed parent
C9_Witness ==
  /\ IsWouldCall
  /\ call.taskId # NULL
  /\ call.parentId # NULL
  /\ call.taskId # call.parentId
  /\ ret = TRUE
  /\ ParentOf(tasks, call.parentId) # call.taskId

\* ret lists the parent chain of the called task nearest-first
ChainNearestFirst ==
  /\ \A i \in 1..Len(ret) : ret[i] # NULL
  /\ Len(ret) > 0 => ret[1] = ParentOf(tasks, call.taskId)
  /\ \A i \in 1..(Len(ret) - 1) :
        HasTask(tasks, ret[i]) /\ ret[i + 1] = GetTask(tasks, ret[i]).parentId

\* ret is empty exactly when the called task is a root or absent
EmptyForRootOrAbsent ==
  (ret = <<>>) <=>
    (~HasTask(tasks, call.taskId)
       \/ GetTask(tasks, call.taskId).parentId = NULL)

\* C10 as stated (SpecTree): the ancestors are the parent chain nearest-first
\* up to the first root, empty for a root or an absent task, and every
\* returned id is the id of a task of the snapshot.
C10_AncestorsAllPresent ==
  IsAncestorsCall =>
    /\ ChainNearestFirst
    /\ EmptyForRootOrAbsent
    /\ \A i \in 1..Len(ret) : HasTask(tasks, ret[i])
    /\ Len(ret) > 0 => GetTask(tasks, ret[Len(ret)]).parentId = NULL

\* C10 amended (SpecTree): the ancestors are the parent chain nearest-first,
\* empty for a root or an absent task; the chain ends at the first root or at
\* the first parentId that names no task of the snapshot, so every returned
\* id except possibly the last is the id of a task of the snapshot.
C10_AncestorsChain ==
  IsAncestorsCall =>
    /\ ChainNearestFirst
    /\ EmptyForRootOrAbsent
    /\ Len(ret) > 0 =>
         \/ ~HasTask(tasks, ret[Len(ret)])
         \/ GetTask(tasks, ret[Len(ret)]).parentId = NULL

\* a two-step chain that ends at a parentId naming no task
C10_Witness ==
  /\ IsAncestorsCall
  /\ Len(ret) = 2
  /\ HasTask(tasks, ret[1])
  /\ ~HasTask(tasks, ret[2])

\* C3 as stated (SpecFresh): starting with no COMPLETE task, after any
\* sequence of propagateStatusChange calls (DONE or IN PROGRESS) whose updates
\* are all applied, every COMPLETE task has at least one child and all of its
\* children are COMPLETE.
C3_CompleteRequiresChildren ==
  \A i \in 1..Len(tasks) :
     tasks[i].status = COMPLETE =>
       LET children == getTaskChildren(tasks, tasks[i].id)
       IN /\ Len(children) > 0
          /\ \A k \in 1..Len(children) : children[k].status = COMPLETE

\* C4 (Spec): propagation never lowers a task below DONE: every entry of the
\* returned list other than the seed has status DONE or COMPLETE, and a task
\* other than the changed one that was COMPLETE is DONE or COMPLETE once the
\* list is applied.
C4_NeverBelowDone ==
  IsPropagateCall =>
    /\ \A i \in 1..Len(ret) :
          ret[i].id # call.taskId => ret[i].status \in {DONE, COMPLETE}
    /\ \A k \in 1..Len(tasks) :
          (tasks[k].status = COMPLETE /\ tasks[k].id # call.taskId) =>
             ApplyUpdates(tasks, ret, 1)[k].status \in {DONE, COMPLETE}

\* a reversion that lowers a COMPLETE parent and a COMPLETE grandparent
C4_Witness ==
  /\ IsPropagateCall
  /\ call.status = IN_PROGRESS
  /\ Len(ret) = 3
  /\ \A i \in 2..3 :
        /\ ret[i].status = DONE
        /\ GetTask(tasks, ret[i].id).status = COMPLETE

\* C5 (Spec): once the updates of propagateStatusChange(T, t, s) are applied,
\* the updates of a second call with the same t and s change no status.
C5_UpgradeIdempotence ==
  (IsPropagateCall
     /\ applied = [taskId |-> call.taskId, status |-> call.status])
    => ApplyUpdates(tasks, ret, 1) = tasks

\* the repeated call again cascades over a sibling and the parent
C5_Witness ==
  /\ IsPropagateCall
  /\ applied = [taskId |-> call.taskId, status |-> call.status]
  /\ Len(ret) = 3

\* the seed entry carries the requested status, or COMPLETE for a DONE request
SeedFirst ==
  /\ Len(ret) >= 1
  /\ ret[1].id = call.taskId
  /\ \/ ret[1].status = call.status
     \/ call.status = DONE /\ ret[1].status = COMPLETE

\* C6 as stated (Spec): the returned list is never empty and starts with the
\* entry of the changed task, also when that task is not in the snapshot.
C6_SeedAlwaysFirst == IsPropagateCall => SeedFirst

\* C6 amended (Spec): when the changed task is in the snapshot the returned
\* list is not empty and starts with the entry of the changed task; when it
\* is not in the snapshot the returned list is empty.
C6_SeedFirstWhenPresent ==
  IsPropagateCall =>
    IF HasTask(tasks, call.taskId) THEN SeedFirst ELSE ret = <<>>

\* a DONE request whose seed entry was raised to COMPLETE by the parent's rule
C6_Witness ==
  /\ IsPropagateCall
  /\ HasTask(tasks, call.taskId)
  /\ call.status = DONE
  /\ Len(getTaskChildren(tasks, call.taskId)) = 0
  /\ ret[1] = [id |-> call.taskId, status |-> COMPLETE]

\* C7 (Spec): the returned list holds at most one entry per task id.
C7_OneUpdatePerTask ==
  IsPropagateCall =>
    \A i, j \in 1..Len(ret) : ret[i].id = ret[j].id => i = j

\* a DONE request whose seed is upgraded, so that the upward pass runs twice
\* over the same parent
C7_Witness ==
  /\ IsPropagateCall
  /\ call.status = DONE
  /\ HasTask(tasks, call.taskId)
  /\ Len(getTaskChildren(tasks, call.taskId)) > 0
  /\ \A c \in Range(getTaskChildren(tasks, call.taskId)) : c.status = COMPLETE
  /\ Len(ret) >= 2
  /\ ret[2].id = ParentOf(tasks, call.taskId)


IsInvalidParentIdsCall == call.op = "getInvalidParentIds"

RECURSIVE ParentIter(_, _, _)
\* the task reached from id by following parentId k times (NULL once the
\* chain has ended)
ParentIter(T, id, k) ==
  IF k = 0 THEN id ELSE ParentIter(T, ParentOf(T, id), k - 1)

\* the tasks of T that have id above them on their parent chain
TransitiveChildren(T, id) ==
  {b \in IdsOf(T) : \E k \in 1..Len(T) : ParentIter(T, b, k) = id}

\* the position of the task id in the snapshot
PositionOf(T, id) == CHOOSE i \in 1..Len(T) : T[i].id = id

\* C11 (SpecWalk): on an acyclic tree getTaskDescendants lists exactly the
\* transitive children of the task, none twice, in pre-order: every listed
\* task is directly followed by the block of its own descendants, siblings
\* come in snapshot order, and the list is empty when the task has no child.
C11_DescendantsPreOrder ==
  IsDescendantsCall =>
    /\ Range(ret) = TransitiveChildren(tasks, call.taskId)
    /\ \A i, j \in 1..Len(ret) : ret[i] = ret[j] => i = j
    /\ \A i \in 1..Len(ret) :
          {j \in 1..Len(ret) : ret[j] \in TransitiveChildren(tasks, ret[i])}
            = (i + 1)..(i + Cardinality(TransitiveChildren(tasks, ret[i])))
    /\ \A i, j \in 1..Len(ret) :
          (i < j /\ ParentOf(tasks, ret[i]) = ParentOf(tasks, ret[j])) =>
             PositionOf(tasks, ret[i]) < PositionOf(tasks, ret[j])
    /\ (ret = <<>>) <=>
          (\A i \in 1..Len(tasks) : tasks[i].parentId # call.taskId)

\* a child, then its own child, then the child's sibling
C11_Witness ==
  /\ IsDescendantsCall
  /\ Len(ret) = 3
  /\ ParentOf(tasks, ret[1]) = call.taskId
  /\ ParentOf(tasks, ret[2]) = ret[1]
  /\ ParentOf(tasks, ret[3]) = call.taskId

\* C12 (SpecWalk): for a non-null task id getInvalidParentIds is the task id
\* followed by getTaskDescendants of it; for a null task id it is empty.
C12_InvalidParentsSelfThenDescendants ==
  IsInvalidParentIdsCall =>
    IF call.taskId = NULL THEN ret = <<>>
    ELSE LET descendants == getTaskDescendants(tasks, call.taskId)
         IN /\ Len(ret) = 1 + Len(descendants)
            /\ ret[1] = call.taskId
            /\ \A i \in 1..Len(descendants) : ret[i + 1] = descendants[i]

\* a task with two descendants: self first, then the two in pre-order
C12_Witness ==
  /\ IsInvalidParentIdsCall
  /\ call.taskId # NULL
  /\ Len(ret) = 3
  /\ ret[1] = call.taskId
  /\ ParentOf(tasks, ret[3]) = ret[2]


IsCountsCall == call.op = "getDependencyCounts"
IsAllCompleteCall == call.op = "areAllDependenciesComplete"

\* the positions of the direct children of id that hold one of the statuses
ChildPositions(T, id, statusSet) ==
  {i \in 1..Len(T) : T[i].parentId = id /\ T[i].status \in statusSet}

\* C13 (SpecCount): areAllDependenciesComplete is true exactly when
\* getDependencyCounts has total >= 1 and complete = total, so it is false
\* for a task without children; the counts are the numbers of direct
\* children, of DONE children and of COMPLETE children, and
\* done + complete <= total.
C13_AllCompleteMatchesCounts ==
  /\ IsAllCompleteCall =>
       LET counts == getDependencyCounts(tasks, call.taskId)
       IN /\ ret = (counts.total >= 1 /\ counts.complete = counts.total)
          /\ ChildPositions(tasks, call.taskId, Statuses) = {} => ret = FALSE
  /\ IsCountsCall =>
       /\ ret.total = Cardinality(ChildPositions(tasks, call.taskId, Statuses))
       /\ ret.done = Cardinality(ChildPositions(tasks, call.taskId, {DONE}))
       /\ ret.complete =
            Cardinality(ChildPositions(tasks, call.taskId, {COMPLETE}))
       /\ ret.done + ret.complete <= ret.total

\* a task whose two children are both COMPLETE
C13_Witness ==
  /\ IsAllCompleteCall
  /\ ret = TRUE
  /\ getDependencyCounts(tasks, call.taskId) =
       [total |-> 2, done |-> 0, complete |-> 2]


\* the names under which the calls of the core functions are recorded
CoreFunctionOps ==
  {"wouldCreateCircularDependency", "getTaskAncestors", "getTaskDescendants",
   "getInvalidParentIds", "getDependencyCounts", "areAllDependenciesComplete",
   "propagateStatusChange"}

C15_CoreFunctionsTerminate == call.op \in CoreFunctionOps => ret.ok

\* the calls that do return on a snapshot with a cycle agree with the plain
\* definitions wherever those are defined, and the two guarded walks always
\* return
C15_GuardedWalksReturn ==
  /\ call.op = "wouldCreateCircularDependency" => ret.ok
  /\ (call.op = "propagateStatusChange" /\ call.status = IN_PROGRESS) => ret.ok
  /\ (call.op \in CoreFunctionOps /\ Acyclic(tasks)) => ret.ok


\* the parent the store would hold for task id after the write of a PUT body
ParentAfterPut(T, id, parentId) ==
  IF parentId = UNDEFINED \/ parentId = NULL THEN ParentOf(T, id) ELSE parentId

NoSelfParent(T) == \A i \in 1..Len(T) : T[i].parentId # T[i].id

\* a PUT on an existing task whose body names a parent that would close a loop
PutWouldCloseLoop(T, id, parentId) ==
  /\ HasTask(T, id)
  /\ ParentGiven(parentId)
  /\ parentId # ParentOf(T, id)
  /\ HasCycle(SetParent(T, id, parentId))

\* C16: from an empty store, after any sequence of POST, PUT and DELETE
\* requests served one at a time the parent relation has no cycle and no task
\* is its own parent; a PUT whose parent change would close a loop is
\* answered 400 and leaves the store as it was
C16_StoreStaysAcyclic ==
  /\ [](Acyclic(tasks) /\ NoSelfParent(tasks))
  /\ [][(call'.op = "PUT" /\ PutWouldCloseLoop(tasks, call'.taskId, call'.parentId))
          => (ret'.code = 400 /\ tasks' = tasks)]_vars

\* a PUT that asked to move a task below its own grandchild was answered 400
C16_Witness ==
  /\ call.op = "PUT"
  /\ ret.code = 400
  /\ HasTask(tasks, call.taskId)
  /\ ParentGiven(call.parentId)
  /\ call.parentId # call.taskId
  /\ ParentOf(tasks, call.parentId) # call.taskId
  /\ call.taskId \in Range(getTaskAncestors(tasks, call.parentId))


\* a request that names a parent the store does not hold
PostNamesMissingParent ==
  /\ call'.op = "POST"
  /\ call'.status # ""
  /\ ParentGiven(call'.parentId)
  /\ ~HasTask(tasks, call'.parentId)

PutNamesMissingParent ==
  /\ call'.op = "PUT"
  /\ HasTask(tasks, call'.taskId)
  /\ ParentGiven(call'.parentId)
  /\ ~HasTask(tasks, call'.parentId)

DeleteOfParent == call'.op = "DELETE" /\ hasChildren(tasks, call'.taskId)

\* C17: after any sequence of requests served one at a time every non-null
\* parentId of the store names an existing task; POST and PUT answer a parent
\* id that does not exist with 404 and DELETE answers a task that still has
\* children with 400, each leaving the store as it was
C17_NonexistentParent404 ==
  /\ [](ParentsExist(tasks))
  /\ [][PostNamesMissingParent => (ret'.code = 404 /\ tasks' = tasks)]_vars
  /\ [][PutNamesMissingParent => (ret'.code = 404 /\ tasks' = tasks)]_vars
  /\ [][DeleteOfParent => (ret'.code = 400 /\ tasks' = tasks)]_vars

\* what the handlers do keep: the store never names a missing parent, PUT
\* answers a missing parent with 404, DELETE answers a parent with 400, and
\* POST turns a missing parent away with 404, or with 400 when the id is the
\* one after the highest id of the store
C17_StoreKeepsParents ==
  /\ [](ParentsExist(tasks))
  /\ [][PostNamesMissingParent =>
          /\ tasks' = tasks
          /\ ret'.code = IF call'.parentId = LastId(tasks) + 1 THEN 400
                         ELSE 404]_vars
  /\ [][PutNamesMissingParent => (ret'.code = 404 /\ tasks' = tasks)]_vars
  /\ [][DeleteOfParent => (ret'.code = 400 /\ tasks' = tasks)]_vars


\* the stored tasks whose parentId is taskId
StoredChildren(taskId) ==
  {i \in 1..Len(tasks) : taskId # NULL /\ tasks[i].parentId = taskId}

\* the call sets a present task DONE whose children, one or more, are all
\* stored COMPLETE
IsDoneCallOverCompleteChildren ==
  /\ IsPropagateCall
  /\ call.status = DONE
  /\ HasTask(tasks, call.taskId)
  /\ StoredChildren(call.taskId) # {}
  /\ \A i \in StoredChildren(call.taskId) : tasks[i].status = COMPLETE

\* C18: a DONE call on a task with one or more children, all COMPLETE, returns
\* the seed entry with status COMPLETE, and the upward COMPLETE pass is run
\* from the task's parent: a present parent gets a COMPLETE entry exactly when
\* every other child of it is stored DONE or COMPLETE
C18_AutoUpgradeThenUpwards ==
  IsDoneCallOverCompleteChildren =>
    /\ Len(ret) >= 1
    /\ ret[1] = [id |-> call.taskId, status |-> COMPLETE]
    /\ LET parentId == ParentOf(tasks, call.taskId)
       IN HasTask(tasks, parentId) =>
            ((\E k \in 1..Len(ret) :
                ret[k] = [id |-> parentId, status |-> COMPLETE])
             <=> \A i \in StoredChildren(parentId) :
                   \/ tasks[i].id = call.taskId
                   \/ tasks[i].status \in {DONE, COMPLETE})

\* an auto-upgraded task under a parent that was not COMPLETE and got its
\* COMPLETE entry
C18_Witness ==
  /\ IsDoneCallOverCompleteChildren
  /\ HasTask(tasks, ParentOf(tasks, call.taskId))
  /\ GetTask(tasks, ParentOf(tasks, call.taskId)).status = IN_PROGRESS
  /\ ret = <<[id |-> call.taskId, status |-> COMPLETE],
             [id |-> ParentOf(tasks, call.taskId), status |-> COMPLETE]>>


HasEntry(id, status) ==
  \E k \in 1..Len(ret) : ret[k] = [id |-> id, status |-> status]

\* every child of parentId other than childId is stored DONE or COMPLETE
SiblingsDoneOrComplete(parentId, childId) ==
  \A i \in StoredChildren(parentId) :
     tasks[i].id = childId \/ tasks[i].status \in {DONE, COMPLETE}

RECURSIVE UpwardCompleteFrom(_)
\* the rule at the parent of childId, a task the list already counts as DONE
\* or COMPLETE, and then at every level above for as long as the levels qualify
UpwardCompleteFrom(childId) ==
  LET parentId == ParentOf(tasks, childId)
  IN (HasTask(tasks, parentId) /\ SiblingsDoneOrComplete(parentId, childId)) =>
       /\ HasEntry(parentId, COMPLETE)
       /\ HasEntry(childId, COMPLETE)
       /\ \A i \in StoredChildren(parentId) :
            (tasks[i].id # childId /\ tasks[i].status = DONE)
              => HasEntry(tasks[i].id, COMPLETE)
       /\ UpwardCompleteFrom(parentId)

\* root 1 with the children 2 and 3, 3 stored COMPLETE
IsSiblingExample ==
  /\ IdsOf(tasks) = {1, 2, 3}
  /\ ParentOf(tasks, 1) = NULL
  /\ ParentOf(tasks, 2) = 1
  /\ ParentOf(tasks, 3) = 1
  /\ GetTask(tasks, 3).status = COMPLETE

\* C19: when a present task is set DONE or COMPLETE and every child of its
\* parent counts as DONE or COMPLETE (the queued status over the stored one),
\* the list holds a COMPLETE entry for every DONE child of that parent and for
\* the parent, whatever the parent's stored status, and the same rule is
\* applied at the parent's parent; child 2 set DONE with sibling 3 COMPLETE
\* under root 1 returns [{2,COMPLETE},{1,COMPLETE}]
C19_UpwardComplete ==
  (IsPropagateCall /\ call.status \in {DONE, COMPLETE}
     /\ HasTask(tasks, call.taskId)) =>
    /\ UpwardCompleteFrom(call.taskId)
    /\ (IsSiblingExample /\ call.taskId = 2 /\ call.status = DONE) =>
         ret = <<[id |-> 2, status |-> COMPLETE],
                 [id |-> 1, status |-> COMPLETE]>>

\* two levels were upgraded: the parent, stored IN PROGRESS, got its COMPLETE
\* entry and the grandparent followed
C19_Witness ==
  /\ IsPropagateCall
  /\ call.status = DONE
  /\ HasTask(tasks, call.taskId)
  /\ LET parentId == ParentOf(tasks, call.taskId)
     IN /\ HasTask(tasks, parentId)
        /\ GetTask(tasks, parentId).status = IN_PROGRESS
        /\ HasEntry(parentId, COMPLETE)
        /\ HasTask(tasks, ParentOf(tasks, parentId))
        /\ HasEntry(ParentOf(tasks, parentId), COMPLETE)
  /\ HasEntry(call.taskId, COMPLETE)

\* the sibling example of C19 was run
C19_WitnessSibling ==
  /\ IsPropagateCall
  /\ IsSiblingExample
  /\ call.taskId = 2
  /\ call.status = DONE
  /\ GetTask(tasks, 1).status = IN_PROGRESS


NoEntry(id) == \A k \in 1..Len(ret) : ret[k].id # id

RECURSIVE HaltsAbove(_, _)
\* walking up from childId: the first parent with a child that does not count
\* as DONE or COMPLETE has no entry, nor have its other children or its
\* ancestors
HaltsAbove(childId, childQualifies) ==
  LET parentId == ParentOf(tasks, childId)
  IN IF ~HasTask(tasks, parentId) THEN TRUE
     ELSE IF childQualifies /\ SiblingsDoneOrComplete(parentId, childId)
     THEN HaltsAbove(parentId, TRUE)
     ELSE /\ NoEntry(parentId)
          /\ \A i \in StoredChildren(parentId) :
               tasks[i].id # childId => NoEntry(tasks[i].id)
          /\ \A a \in Range(getTaskAncestors(tasks, parentId)) : NoEntry(a)

\* Scenario A: root 1 with the children 2 and 3, all IN PROGRESS
IsScenarioA ==
  /\ IdsOf(tasks) = {1, 2, 3}
  /\ ParentOf(tasks, 1) = NULL
  /\ ParentOf(tasks, 2) = 1
  /\ ParentOf(tasks, 3) = 1
  /\ \A i \in 1..Len(tasks) : tasks[i].status = IN_PROGRESS

C20_WitnessScenarioA ==
  IsPropagateCall /\ IsScenarioA /\ call.taskId = 2 /\ call.status = DONE


RECURSIVE LoweredAncestors(_)
\* walking up from the parent of childId: a DONE entry for every consecutive
\* ancestor that is stored COMPLETE, up to the first one that is not
LoweredAncestors(childId) ==
  LET parentId == ParentOf(tasks, childId)
  IN IF HasTask(tasks, parentId) /\ GetTask(tasks, parentId).status = COMPLETE
     THEN <<[id |-> parentId, status |-> DONE]>> \o LoweredAncestors(parentId)
     ELSE <<>>

\* Scenario D on the ids of the model: 3 below 2 below 1, 2 stored COMPLETE
\* and 1 stored IN PROGRESS
IsScenarioD ==
  /\ IdsOf(tasks) = {1, 2, 3}
  /\ ParentOf(tasks, 1) = NULL
  /\ ParentOf(tasks, 2) = 1
  /\ ParentOf(tasks, 3) = 2
  /\ GetTask(tasks, 2).status = COMPLETE
  /\ GetTask(tasks, 1).status = IN_PROGRESS

\* C21: an IN PROGRESS call on a present task returns the seed followed by a
\* DONE entry for each consecutive COMPLETE ancestor, nearest first, and
\* nothing for the first ancestor that is not COMPLETE or for any ancestor
\* above it; in Scenario D the list is exactly the seed and {parent, DONE}
C21_ReversionStopsAtFirstNonComplete ==
  (IsPropagateCall /\ call.status = IN_PROGRESS /\ HasTask(tasks, call.taskId)) =>
    /\ ret = <<[id |-> call.taskId, status |-> IN_PROGRESS]>>
               \o LoweredAncestors(call.taskId)
    /\ (IsScenarioD /\ call.taskId = 3) =>
         ret = <<[id |-> 3, status |-> IN_PROGRESS], [id |-> 2, status |-> DONE]>>

\* a reversion that lowered both the parent and the grandparent
C21_Witness ==
  /\ IsPropagateCall
  /\ call.status = IN_PROGRESS
  /\ HasTask(tasks, call.taskId)
  /\ Len(ret) = 3
  /\ ret[2] = [id |-> ParentOf(tasks, call.taskId), status |-> DONE]
  /\ ret[3].status = DONE

\* Scenario D of C21 was run
C21_WitnessScenarioD ==
  IsPropagateCall /\ IsScenarioD /\ call.taskId = 3 /\ call.status = IN_PROGRESS


\* C22: for a present task and a newStatus that is none of IN PROGRESS, DONE
\* and COMPLETE the result is exactly the seed entry {taskId, newStatus}, and
\* so it is for every newStatus other than DONE when the task has no parent
C22_SeedOnly ==
  (/\ IsPropagateCall
   /\ HasTask(tasks, call.taskId)
   /\ \/ call.status \notin CoreStatuses
      \/ call.status # DONE /\ ParentOf(tasks, call.taskId) = NULL) =>
    ret = <<[id |-> call.taskId, status |-> call.status]>>

\* an unknown status was set on a task with COMPLETE children below a
\* COMPLETE parent, and only the seed came back
C22_Witness ==
  /\ IsPropagateCall
  /\ call.status = IN_PROCESS
  /\ HasTask(tasks, call.taskId)
  /\ HasTask(tasks, ParentOf(tasks, call.taskId))
  /\ GetTask(tasks, ParentOf(tasks, call.taskId)).status = COMPLETE
  /\ \E i \in StoredChildren(call.taskId) : tasks[i].status = COMPLETE
  /\ ret = <<[id |-> call.taskId, status |-> IN_PROCESS]>>


RECURSIVE ChainFrom(_, _)
\* the ids on the parent chain that starts at currentId
ChainFrom(currentId, seen) ==
  IF currentId = NULL \/ currentId \in seen THEN seen
  ELSE ChainFrom(ParentOf(tasks, currentId), seen \cup {currentId})

\* the parent chain that starts at startId never ends: it comes back to an id
\* it has been at
ChainLoops(startId) ==
  /\ startId # NULL
  /\ \A id \in ChainFrom(startId, {}) :
       HasTask(tasks, id) /\ ParentOf(tasks, id) # NULL

\* C23: wouldCreateCircularDependency returns on every snapshot, also when the
\* parent chain from the proposed parent runs into a cycle that was there
\* before: it answers whether taskId is on that chain, so a walk that comes
\* back to a node without having met taskId answers false
C23_CycleCheckTerminates ==
  IsWouldCall =>
    /\ ret.ok
    /\ ret.value = (/\ call.taskId # NULL
                    /\ call.parentId # NULL
                    /\ call.taskId \in ChainFrom(call.parentId, {}))
    /\ (call.taskId # NULL /\ ChainLoops(call.parentId)
          /\ call.taskId \notin ChainFrom(call.parentId, {})) =>
         ret.value = FALSE

\* the check was asked about a task off a loop of two or more tasks that the
\* proposed parent's chain runs into, and answered false
C23_Witness ==
  /\ IsWouldCall
  /\ HasTask(tasks, call.taskId)
  /\ ChainLoops(call.parentId)
  /\ Cardinality(ChainFrom(call.parentId, {})) >= 2
  /\ call.taskId \notin ChainFrom(call.parentId, {})
  /\ ret = Returns(FALSE)


\* the number of ids above taskId on its parent chain, a missing parent
\* included
Depth(taskId) == Cardinality(ChainFrom(ParentOf(tasks, taskId), {}))

StepsOfCall == propagateStatusChangeSteps(tasks, call.taskId, call.status)

\* C24: on every acyclic snapshot, parentIds of absent tasks included, and
\* for every task id and status propagateStatusChange returns, and the number
\* of upward steps it takes is at most the depth of the changed task
C24_StepsWithinDepth ==
  IsPropagateCall =>
    /\ ret.ok
    /\ StepsOfCall.case1 + StepsOfCall.case2 + StepsOfCall.case3
         <= Depth(call.taskId)

\* C24 as the code has it: the call returns, every upward pass takes at most
\* as many steps as the changed task is deep, and there are at most two
\* passes (a DONE call that was upgraded to COMPLETE walks up twice)
C24_EachPassWithinDepth ==
  IsPropagateCall =>
    /\ ret.ok
    /\ StepsOfCall.case1 <= Depth(call.taskId)
    /\ StepsOfCall.case2 <= Depth(call.taskId)
    /\ StepsOfCall.case3 <= Depth(call.taskId)
    /\ StepsOfCall.case3 > 0 => StepsOfCall.case1 + StepsOfCall.case2 = 0
    /\ StepsOfCall.case1 + StepsOfCall.case2 + StepsOfCall.case3
         <= 2 * Depth(call.taskId)

\* a DONE call on a task of depth one that was upgraded to COMPLETE and went
\* up to its parent twice
C24_Witness ==
  /\ IsPropagateCall
  /\ ret.ok
  /\ HasTask(tasks, ParentOf(tasks, call.taskId))
  /\ Depth(call.taskId) = 1
  /\ StepsOfCall.case1 = 1
  /\ StepsOfCall.case2 = 1
  /\ Len(ret.value) = 2

\* a reversion that took as many steps as the task is deep
C24_WitnessDeep ==
  /\ IsPropagateCall
  /\ ret.ok
  /\ Depth(call.taskId) = 2
  /\ StepsOfCall.case3 = 2


\* C25: on an acyclic tree in which every parentId names an existing task, for
\* all tasks t and p, p is in getInvalidParentIds(T, t) exactly when
\* wouldCreateCircularDependency(T, t, p) is true
C25_ExclusionListMatchesCycleCheck ==
  (IsInvalidParentIdsCall /\ HasTask(tasks, call.taskId)
     /\ Acyclic(tasks) /\ ParentsExist(tasks)) =>
    \A p \in IdsOf(tasks) :
       p \in Range(ret)
         <=> wouldCreateCircularDependency(tasks, call.taskId, p)

\* a list that holds a grandchild the cycle check rejects and leaves out a
\* task the cycle check lets through
C25_Witness ==
  /\ IsInvalidParentIdsCall
  /\ HasTask(tasks, call.taskId)
  /\ ParentsExist(tasks)
  /\ \E p \in IdsOf(tasks) :
       /\ ParentOf(tasks, ParentOf(tasks, p)) = call.taskId
       /\ p \in Range(ret)
       /\ wouldCreateCircularDependency(tasks, call.taskId, p)
  /\ \E q \in IdsOf(tasks) :
       /\ q \notin Range(ret)
       /\ ~wouldCreateCircularDependency(tasks, call.taskId, q)


\* C26: in every list propagateStatusChange returns on an acyclic tree for a
\* present task the seed comes first, and of two entries that belong to a task
\* and one of its ancestors the descendant's entry comes before the
\* ancestor's, so a caller that applies the list in order writes children
\* before their parents
C26_DescendantsBeforeAncestors ==
  (IsPropagateCall /\ HasTask(tasks, call.taskId)) =>
    /\ ret[1].id = call.taskId
    /\ \A i, j \in 1..Len(ret) :
         ret[j].id \in ChainFrom(ParentOf(tasks, ret[i].id), {}) => i < j

\* a list of the seed, an upgraded sibling and then their parent
C26_Witness ==
  /\ IsPropagateCall
  /\ HasTask(tasks, call.taskId)
  /\ Len(ret) = 3
  /\ ret[1].id = call.taskId
  /\ ParentOf(tasks, ret[2].id) = ret[3].id
  /\ ParentOf(tasks, ret[1].id) = ret[3].id


IsReparentCall == call.op = "handleUpdateTask"

StatusIn(updates, id) == updates[FindUpdate(updates, id)].status

\* C27: on a re-parent handleUpdateTask runs one pass for the old parent and
\* one for the new parent on the same derived snapshot and merges them old
\* first, new second: where both passes have an entry for a task the status of
\* the new-parent pass is the one that is kept and written, and the entries of
\* the old-parent pass come first in the batch
C27_NewParentPassWins ==
  (IsReparentCall /\ ret.ran) =>
    LET taskId == call.taskId
        updatedTasks == SetParent(ret.snapshot, taskId, call.parentId)
        oldParentId == ParentOf(ret.snapshot, taskId)
    IN /\ ret.old = ParentPass(ret.snapshot, updatedTasks, oldParentId)
       /\ ret.new = ParentPass(ret.snapshot, updatedTasks, call.parentId)
       /\ IdsOf(ret.merged) = IdsOf(ret.old) \cup IdsOf(ret.new)
       /\ \A k \in 1..Len(ret.old) : ret.merged[k].id = ret.old[k].id
       /\ \A id \in IdsOf(ret.merged) :
            /\ StatusIn(ret.merged, id) =
                 IF id \in IdsOf(ret.new) THEN StatusIn(ret.new, id)
                 ELSE StatusIn(ret.old, id)
            /\ (id # taskId /\ HasTask(ret.snapshot, id)) =>
                 GetTask(tasks, id).status = StatusIn(ret.merged, id)

\* the two passes disagreed about a task on both parent chains, so that the
\* other merge order would have kept another status for it, and the store has
\* the status of the new-parent pass
C27_Witness ==
  /\ IsReparentCall
  /\ ret.ran
  /\ \E id \in IdsOf(ret.old) \cap IdsOf(ret.new) :
       /\ StatusIn(ret.old, id) # StatusIn(ret.new, id)
       /\ StatusIn(MergePasses_NewFirst(ret.old, ret.new), id)
            # StatusIn(ret.merged, id)
       /\ id \in ChainFrom(ret.old[1].id, {})
       /\ id \in ChainFrom(call.parentId, {})
       /\ GetTask(tasks, id).status = StatusIn(ret.new, id)

\* C28 (SpecRace): the stored parent relation stays acyclic however the
\* read, check and write steps of concurrent PUT requests interleave.
C28_AcyclicUnderInterleaving == Acyclic(tasks)

\* two requests have both been answered 200 and the store holds a cycle
C28_BothAcceptedCycle ==
  /\ Len(inflight) = 2
  /\ \A r \in 1..2 : inflight[r].response.code = 200
  /\ HasCycle(tasks)
  /\ inflight[1].parentId = inflight[2].id
  /\ inflight[2].parentId = inflight[1].id

IsToggleCall == call.op = "handleToggleStatus"

\* the status the first n entries of the batch give the task, else the one
\* it had
StatusAfterPrefix(T, updates, n, id) ==
  IF \E i \in 1..n : updates[i].id = id
  THEN updates[CHOOSE i \in 1..n : updates[i].id = id].status
  ELSE GetTask(T, id).status

\* C29 (SpecToggle): handleToggleStatus writes the batch entry by entry in
\* list order and stops at the first failed write without undoing the
\* earlier ones: the store holds exactly the entries before the failed one,
\* and the whole batch when, and only when, no write failed.
C29_StoreHoldsPrefixOfBatch ==
  (IsToggleCall /\ ret.ran) =>
    /\ ret.updates =
         propagateStatusChange(ret.snapshot, call.taskId, call.status)
    /\ ret.written \in 0..Len(ret.updates)
    /\ ret.threw <=> ret.written < Len(ret.updates)
    /\ IdsOf(tasks) = IdsOf(ret.snapshot)
    /\ \A id \in IdsOf(tasks) :
         /\ GetTask(tasks, id).parentId = GetTask(ret.snapshot, id).parentId
         /\ GetTask(tasks, id).status =
              StatusAfterPrefix(ret.snapshot, ret.updates, ret.written, id)

\* a write failed after a child was written COMPLETE and before its parent's
\* entry was written: the store holds a strict, non-empty prefix
C29_Witness ==
  /\ IsToggleCall
  /\ ret.ran
  /\ ret.threw
  /\ ret.written >= 1
  /\ \E i \in 1..ret.written, j \in (ret.written + 1)..Len(ret.updates) :
       /\ ret.updates[i].status = COMPLETE
       /\ ret.updates[j].id = ParentOf(tasks, ret.updates[i].id)
       /\ GetTask(tasks, ret.updates[i].id).status = COMPLETE
       /\ GetTask(tasks, ret.updates[j].id).status # ret.updates[j].status

\* every write succeeded and a batch of more than one entry is in the store
C29_WitnessWhole ==
  /\ IsToggleCall
  /\ ret.ran
  /\ ~ret.threw
  /\ Len(ret.updates) > 1
  /\ tasks # ret.snapshot

\* C30 (SpecPut): a PUT whose body has parentId null, or no parentId, leaves
\* every stored parent as it was, and no PUT at all turns a task that has a
\* parent into a root.
C30_PutNeverClearsParent ==
  [][ /\ IdsOf(tasks') = IdsOf(tasks)
      /\ \A id \in IdsOf(tasks) :
           /\ ParentOf(tasks, id) # NULL => ParentOf(tasks', id) # NULL
           /\ call'.parentId \in {NULL, UNDEFINED} =>
                ParentOf(tasks', id) = ParentOf(tasks, id) ]_vars

\* a PUT with parentId null on a task that has a parent was answered 200 and
\* the task still has its parent
C30_Witness ==
  /\ call.op = "PUT"
  /\ call.parentId = NULL
  /\ ret.code = 200
  /\ HasTask(tasks, call.taskId)
  /\ ParentOf(tasks, call.taskId) # NULL
====
